---- MODULE Spec2Model ----
(***************************************************************************)
(* NUMA support of the engine (src/src/numa.rs): the process-wide topology *)
(* cache MAPPING, bind_thread and NumaReplicator, on the three backends    *)
(* the build can select (Linux + libnuma, Windows, NUMA disabled).         *)
(***************************************************************************)
EXTENDS Integers, Sequences, FiniteSets, TLC

VARIABLES
    backend,     \* the cfg-selected backend: "linux", "windows" or "none"
    host,        \* what the platform's topology queries answer right now
    hostChanges, \* how many processors went offline since the process started
    once,        \* state of the OnceLock MAPPING: "incomplete", "running", "complete"
    MAPPING,     \* the value stored in the OnceLock (EmptyMap until it is set)
    pc,          \* per thread: "idle", "init" (inside initialize), "waiting" (blocked in get_or_init)
    returned,    \* per thread: <<m>> when its last mapping() call returned m, <<>> before
    initRuns,    \* how many times initialize was entered
    produced,    \* the maps the runs of initialize returned, in order
    lastBind,    \* outcome of the latest bind_thread call
    phase,       \* the replicator: "unbuilt", "live", "dropped", or "panicked"
    allocated,   \* NumaReplicator::allocated, a Vec of pointers
    heap,        \* per pointer handed out by an allocator: what lives there
    factoryCalls,\* how many times `source` was invoked
    lastGet,     \* outcome of the latest get()
    lastGetAll   \* the pointers the latest get_all() returned

vars == <<backend, host, hostChanges, once, MAPPING, pc, returned, initRuns, produced,
          lastBind, phase, allocated, heap, factoryCalls, lastGet, lastGetAll>>

topoVars == <<host, hostChanges, once, MAPPING, pc, returned, initRuns, produced>>
bindVars == <<lastBind>>
replVars == <<phase, allocated, heap, factoryCalls, lastGet, lastGetAll>>

---------------------------------------------------------------------------
(* Program constants and bounds of the model.                              *)

MAXIMUM_PROC_PER_GROUP == 64

\* usize::MAX.  It is 2^64 - 1 on the 64-bit targets; TLC's integers end at
\* 2^31 - 1, which stands in for it: the model only ever compares it with loop
\* indices up to MaxNode, and those comparisons come out the same.
USIZE_MAX == 2147483647

MaxNode == 1        \* node identifiers are 0..MaxNode
MaxCpu == 1         \* logical processors are numbered 0..MaxCpu
NumGroups == 2      \* Windows: processor groups the processors are spread over
NThreads == 2       \* threads calling into the module
MaxId == 4          \* bind_thread identifiers are 0..MaxId
MaxHostChanges == 1 \* processors that may go offline while the process runs

Nodes == 0..MaxNode
Cpus == 0..MaxCpu
Threads == 1..NThreads
Backends == {"linux", "windows", "none"}

EmptyMap == [n \in {} |-> <<>>]

Range(s) == {s[i] : i \in DOMAIN s}

Min(S) == CHOOSE x \in S : \A y \in S : x <= y

\* The elements of a finite set of integers, ascending.
RECURSIVE Ascending(_)
Ascending(S) ==
    IF S = {} THEN <<>> ELSE <<Min(S)>> \o Ascending(S \ {Min(S)})

\* Every order in which the entries of a HashMap with key set S can be visited.
RECURSIVE Orders(_)
Orders(S) ==
    IF S = {} THEN {<<>>}
    ELSE UNION {{<<x>> \o o : o \in Orders(S \ {x})} : x \in S}

\* Position (from 0) of the first element of seq that is in `wanted`, as find_map
\* over enumerate() yields it; -1 when there is none.
FirstIndex(seq, wanted) ==
    LET hits == {i \in DOMAIN seq : seq[i] \in wanted}
    IN  IF hits = {} THEN -1 ELSE Min(hits) - 1

---------------------------------------------------------------------------
(* The platform.                                                           *)

\* Windows: the active logical processors, as <<group, number>>.  The MaxCpu + 1
\* processors of the host are spread over NumGroups groups.
WinProcs == {<<k % NumGroups, k \div NumGroups>> : k \in Cpus}

\* GetActiveProcessorGroupCount
GroupCount == Cardinality({p[1] : p \in WinProcs})

\* GetActiveProcessorCount(group)
ActiveProcessorCount(group) == Cardinality({p \in WinProcs : p[1] = group})

NoHost == [kind |-> "none"]

\* Linux: numa_max_node() is a c_int; numa_node_to_cpus fills the mask of each
\* node (its return value is not looked at, so the mask is taken as it comes: on
\* a failed read libnuma leaves every bit set).
LinuxHosts ==
    [kind : {"linux"}, max_node : -1..MaxNode, cpumask : [Nodes -> SUBSET Cpus]]

\* Windows: GetNumaHighestNodeNumber's BOOL result and out-parameter, and per
\* processor GetNumaProcessorNodeEx's node (-1: the call returned 0).
WindowsHosts ==
    [kind : {"windows"}, highest_ok : {0, 1}, highest_node : Nodes,
     procnode : [WinProcs -> -1..MaxNode]]

Hosts(b) ==
    CASE b = "linux" -> LinuxHosts
      [] b = "windows" -> WindowsHosts
      [] OTHER -> {NoHost}

---------------------------------------------------------------------------
(* mapping(): topology discovery and its cache.                            *)

\* `c_int as usize`
AsUsize(x) == IF x >= 0 THEN x ELSE USIZE_MAX + (1 + x)

\* The nodes the linux loop inserts: those in 0..=max_node with a non-empty mask.
LinuxKept(h) == {n \in Nodes : n <= AsUsize(h.max_node) /\ h.cpumask[n] # {}}

\* linux initialize: cpus are pushed for cpu in 0..CPU_SETSIZE, so ascending.
LinuxInitialize(h) == [n \in LinuxKept(h) |-> Ascending(h.cpumask[n])]

\* cpu = group * MAXIMUM_PROC_PER_GROUP + number
WinCpuId(p) == p[1] * MAXIMUM_PROC_PER_GROUP + p[2]

\* The processors windows initialize does not `continue` past.
WinAccepted(h) ==
    {p \in WinProcs : /\ p[1] < GroupCount
                      /\ p[2] < ActiveProcessorCount(p[1])
                      /\ h.procnode[p] # -1
                      /\ h.procnode[p] <= h.highest_node}

\* windows initialize: the loops run over group, then number, so each node's
\* sequence is ascending in the synthesized identifier.
WindowsInitialize(h) ==
    IF h.highest_ok = 0 THEN EmptyMap
    ELSE LET acc == WinAccepted(h)
             map == [n \in {h.procnode[p] : p \in acc} |->
                        Ascending({WinCpuId(p) : p \in {q \in acc : h.procnode[q] = n}})]
         IN  [n \in {m \in DOMAIN map : map[m] # <<>>} |-> map[n]]

\* Whether initialize returns at all on this host.  The linux loop
\* `for node in 0..=max_node` ends when its upper bound is a node index a host
\* can have; with the bound at usize::MAX it goes on allocating a mask and
\* querying node after node, 2^64 times over.
InitializeTerminates(b, h) ==
    IF b = "linux" THEN AsUsize(h.max_node) <= MaxNode ELSE TRUE

Initialize(b, h) ==
    CASE b = "linux" -> LinuxInitialize(h)
      [] b = "windows" -> WindowsInitialize(h)
      [] OTHER -> EmptyMap

\* OnceLock::get_or_init runs its closure only when the cell is still empty and
\* no other thread is running one.
GetOrInitRunsClosure_racy(o) == o # "complete"
GetOrInitRunsClosure(o) == o = "incomplete"

\* mapping() finds the cell set: it returns a clone.
MappingCached(t) ==
    /\ backend # "none"
    /\ pc[t] = "idle"
    /\ once = "complete"
    /\ returned' = [returned EXCEPT ![t] = <<MAPPING>>]
    /\ UNCHANGED <<host, hostChanges, once, MAPPING, pc, initRuns, produced>>

\* mapping() finds the cell empty: this thread runs initialize.
MappingInit(t) ==
    /\ backend # "none"
    /\ pc[t] = "idle"
    /\ once # "complete"
    /\ GetOrInitRunsClosure(once)
    /\ once' = "running"
    /\ pc' = [pc EXCEPT ![t] = "init"]
    /\ initRuns' = initRuns + 1
    /\ UNCHANGED <<host, hostChanges, MAPPING, returned, produced>>

\* mapping() finds another thread initializing: get_or_init blocks.
MappingWait(t) ==
    /\ backend # "none"
    /\ pc[t] = "idle"
    /\ once = "running"
    /\ pc' = [pc EXCEPT ![t] = "waiting"]
    /\ UNCHANGED <<host, hostChanges, once, MAPPING, returned, initRuns, produced>>

\* initialize returns; the cell is set and the caller gets a clone.
InitializeReturn(t) ==
    /\ pc[t] = "init"
    /\ InitializeTerminates(backend, host)
    /\ LET map == Initialize(backend, host)
       IN  /\ MAPPING' = map
           /\ produced' = Append(produced, map)
           /\ returned' = [returned EXCEPT ![t] = <<map>>]
    /\ once' = "complete"
    /\ pc' = [pc EXCEPT ![t] = "idle"]
    /\ UNCHANGED <<host, hostChanges, initRuns>>

\* A blocked get_or_init wakes up once the cell is set.
WaitReturn(t) ==
    /\ pc[t] = "waiting"
    /\ once = "complete"
    /\ returned' = [returned EXCEPT ![t] = <<MAPPING>>]
    /\ pc' = [pc EXCEPT ![t] = "idle"]
    /\ UNCHANGED <<host, hostChanges, once, MAPPING, initRuns, produced>>

\* The platform, not the program: a processor goes offline, and the topology
\* queries answer differently from then on.
ProcessorOffline ==
    /\ hostChanges < MaxHostChanges
    /\ \/ /\ backend = "linux"
          /\ \E c \in Cpus :
                /\ \E n \in Nodes : c \in host.cpumask[n]
                /\ host' = [host EXCEPT !.cpumask = [n \in Nodes |-> @[n] \ {c}]]
       \/ /\ backend = "windows"
          /\ \E p \in WinProcs :
                /\ host.procnode[p] # -1
                /\ host' = [host EXCEPT !.procnode[p] = -1]
    /\ hostChanges' = hostChanges + 1
    /\ UNCHANGED <<once, MAPPING, pc, returned, initRuns, produced>>

NoBind == [outcome |-> "none", id |-> 0, slot |-> 0, node |-> -1, cpu |-> -1, requests |-> <<>>]
NoGet == [outcome |-> "none", cpu |-> -1, ptr |-> 0]

\* The process before its first call into the module.
InitProcess ==
    /\ backend \in Backends
    /\ host \in Hosts(backend)
    /\ hostChanges = 0
    /\ once = "incomplete"
    /\ MAPPING = EmptyMap
    /\ pc = [t \in Threads |-> "idle"]
    /\ returned = [t \in Threads |-> <<>>]
    /\ initRuns = 0
    /\ produced = <<>>
    /\ lastBind = NoBind
    /\ phase = "unbuilt"
    /\ allocated = <<>>
    /\ heap = <<>>
    /\ factoryCalls = 0
    /\ lastGet = NoGet
    /\ lastGetAll = <<>>

\* mapping() exists only with the numa feature.
InitTopo == InitProcess /\ backend # "none"

NextTopo ==
    \/ \E t \in Threads : MappingCached(t) /\ UNCHANGED <<backend, bindVars, replVars>>
    \/ \E t \in Threads : MappingInit(t) /\ UNCHANGED <<backend, bindVars, replVars>>
    \/ \E t \in Threads : MappingWait(t) /\ UNCHANGED <<backend, bindVars, replVars>>
    \/ \E t \in Threads : InitializeReturn(t) /\ UNCHANGED <<backend, bindVars, replVars>>
    \/ \E t \in Threads : WaitReturn(t) /\ UNCHANGED <<backend, bindVars, replVars>>
    \/ ProcessorOffline /\ UNCHANGED <<backend, bindVars, replVars>>

SpecTopo == InitTopo /\ [][NextTopo]_vars

---------------------------------------------------------------------------
(* A handler's call of mapping() when one thread uses the module: the      *)
(* cached map, or the map initialize computes on the first call.           *)

MappingHangs == once # "complete" /\ ~InitializeTerminates(backend, host)

MappingResult == IF once = "complete" THEN MAPPING ELSE Initialize(backend, host)

\* The effect of mapping() on the cache, when it returns.
MappingFills ==
    /\ once' = "complete"
    /\ MAPPING' = MappingResult
    /\ initRuns' = IF once = "complete" THEN initRuns ELSE initRuns + 1
    /\ produced' = IF once = "complete" THEN produced ELSE Append(produced, MappingResult)
    /\ UNCHANGED <<host, hostChanges, pc, returned>>

\* mapping() that never returns: the thread stays inside initialize.
MappingStuck ==
    /\ once' = "running"
    /\ initRuns' = initRuns + 1
    /\ UNCHANGED <<host, hostChanges, MAPPING, pc, returned, produced>>

---------------------------------------------------------------------------
(* bind_thread                                                             *)

RECURSIVE SumLen(_, _)
SumLen(map, S) ==
    IF S = {} THEN 0
    ELSE LET n == Min(S) IN Len(map[n]) + SumLen(map, S \ {n})

\* map.values().map(|cpus| cpus.len()).sum()
NumCpus(map) == SumLen(map, DOMAIN map)

\* linux: mapping().iter().find_map(|(node, cpus)| cpus.contains(&id).then_some(*node)).unwrap_or(0)
FindNodeOfCpu(map, order, id) ==
    LET i == FirstIndex(order, {n \in DOMAIN map : id \in Range(map[n])})
    IN  IF i = -1 THEN 0 ELSE order[i + 1]

\* windows: entries.sort_unstable_by_key(|&(node, _)| node)
SortByNode(order) == Ascending(Range(order))

\* windows: the loop over the sorted entries.  cpu = -1 stands for None.
RECURSIVE WalkEntries(_, _, _)
WalkEntries(map, entries, remaining) ==
    IF entries = <<>> THEN [node |-> -1, cpu |-> -1]
    ELSE LET cpus == map[Head(entries)]
         IN  IF cpus = <<>> THEN WalkEntries(map, Tail(entries), remaining)
             ELSE IF remaining < Len(cpus)
                  THEN [node |-> Head(entries), cpu |-> cpus[remaining + 1]]
                  ELSE WalkEntries(map, Tail(entries), remaining - Len(cpus))

\* linux bind_thread on `map`, whose entries iter() visits in `order`.
LinuxBindThread(map, order, id) ==
    IF NumCpus(map) = 0
    THEN \* `id % num_cpus()`: remainder with a divisor of zero panics
         [outcome |-> "panicked", id |-> id, slot |-> 0, node |-> -1, cpu |-> -1,
          requests |-> <<>>]
    ELSE LET slot == id % NumCpus(map)
             node == FindNodeOfCpu(map, order, slot)
         IN  [outcome |-> "returned", id |-> id, slot |-> slot, node |-> node, cpu |-> -1,
              requests |-> << <<"numa_run_on_node", node, 0>>,
                              <<"numa_set_preferred", node, 0>> >>]

\* windows bind_thread on `map`, whose entries iter() visits in `order`.
WindowsBindThread(map, order, id) ==
    IF NumCpus(map) = 0
    THEN [outcome |-> "returned", id |-> id, slot |-> 0, node |-> -1, cpu |-> -1,
          requests |-> <<>>]
    ELSE LET slot == id % NumCpus(map)
             hit == WalkEntries(map, SortByNode(order), slot)
         IN  IF hit.cpu = -1
             THEN [outcome |-> "returned", id |-> id, slot |-> slot, node |-> -1,
                   cpu |-> -1, requests |-> <<>>]
             ELSE [outcome |-> "returned", id |-> id, slot |-> slot, node |-> hit.node,
                   cpu |-> hit.cpu,
                   requests |-> << <<"SetThreadGroupAffinity",
                                     hit.cpu \div MAXIMUM_PROC_PER_GROUP,
                                     hit.cpu % MAXIMUM_PROC_PER_GROUP>> >>]

\* bind_thread without the numa feature: nothing happens.
NoNumaBindThread(id) ==
    [outcome |-> "returned", id |-> id, slot |-> 0, node |-> -1, cpu |-> -1,
     requests |-> <<>>]

BindThread(id) ==
    /\ once # "running"
    /\ \/ /\ backend = "none"
          /\ lastBind' = NoNumaBindThread(id)
          /\ UNCHANGED topoVars
       \/ /\ backend # "none"
          /\ MappingHangs
          /\ lastBind' = [outcome |-> "hung", id |-> id, slot |-> 0, node |-> -1,
                          cpu |-> -1, requests |-> <<>>]
          /\ MappingStuck
       \/ /\ backend # "none"
          /\ ~MappingHangs
          /\ \E order \in Orders(DOMAIN MappingResult) :
                lastBind' = IF backend = "linux"
                            THEN LinuxBindThread(MappingResult, order, id)
                            ELSE WindowsBindThread(MappingResult, order, id)
          /\ MappingFills
    /\ UNCHANGED <<backend, replVars>>

NextBind == \E id \in 0..MaxId : BindThread(id)

SpecBind == InitProcess /\ [][NextBind]_vars

---------------------------------------------------------------------------
(* Claims about bind_thread (checked under SpecBind).                      *)

\* The Topology Map the latest handler worked on is the (now cached) MAPPING.
BindRan == lastBind.outcome \notin {"none", "hung"}

\* C2: on every backend, with an empty Topology Map (total processor count 0),
\* bind_thread(id) issues no OS affinity or allocation-preference request and
\* returns normally: it does not panic.
C2_EmptyMapBindIsNoop ==
    (BindRan /\ NumCpus(MAPPING) = 0) =>
        (lastBind.outcome = "returned" /\ lastBind.requests = <<>>)

\* C3: for a fixed non-empty Topology Map with total > 0, two calls
\* bind_thread(i1), bind_thread(i2) with i1 mod total = i2 mod total select the
\* same target node (on the windows backend the same processor too), whatever the
\* order in which each call iterates the map.
C3_SameSlotSameTarget ==
    [][(/\ once = "complete"
        /\ NumCpus(MAPPING) > 0
        /\ lastBind.outcome = "returned"
        /\ lastBind'.outcome = "returned"
        /\ lastBind.id % NumCpus(MAPPING) = lastBind'.id % NumCpus(MAPPING))
       => (lastBind'.node = lastBind.node /\ lastBind'.cpu = lastBind.cpu)]_vars

\* The walk of the specification: visit the nodes in `order`, accumulating the
\* lengths of their processor sequences until `slot` falls inside a node's range.
RECURSIVE SpecWalk(_, _, _, _)
SpecWalk(map, order, slot, offset) ==
    IF order = <<>> THEN [node |-> -1, cpu |-> -1]
    ELSE LET cpus == map[Head(order)]
         IN  IF slot < offset + Len(cpus)
             THEN [node |-> Head(order), cpu |-> cpus[slot - offset + 1]]
             ELSE SpecWalk(map, Tail(order), slot, offset + Len(cpus))

\* What the walk can select for `slot`, over the orders the platform may use.
WalkTargets(map, slot) ==
    {SpecWalk(map, order, slot, 0) : order \in Orders(DOMAIN map)}

\* C9: for every non-empty Topology Map and every id, bind_thread(id) targets
\* the node the specification's walk finds for slot = id mod total, which is a
\* node of the map; linux passes that node to numa_run_on_node and
\* numa_set_preferred, windows binds cpus[slot - offset] of that node.
C9_BindFollowsWalk ==
    (BindRan /\ NumCpus(MAPPING) > 0) =>
        LET slot == lastBind.id % NumCpus(MAPPING)
        IN  /\ lastBind.outcome = "returned"
            /\ lastBind.node \in DOMAIN MAPPING
            /\ \E w \in WalkTargets(MAPPING, slot) :
                  /\ w.node = lastBind.node
                  /\ backend = "linux" =>
                        lastBind.requests = << <<"numa_run_on_node", w.node, 0>>,
                                               <<"numa_set_preferred", w.node, 0>> >>
                  /\ backend = "windows" =>
                        /\ lastBind.cpu = w.cpu
                        /\ lastBind.requests =
                              << <<"SetThreadGroupAffinity",
                                   w.cpu \div MAXIMUM_PROC_PER_GROUP,
                                   w.cpu % MAXIMUM_PROC_PER_GROUP>> >>

---------------------------------------------------------------------------
(* NumaReplicator                                                          *)

\* The allocator each backend's new() uses, and the deallocator its drop() uses.
AllocatorOf(b) ==
    CASE b = "linux" -> "numa_alloc_onnode"
      [] b = "windows" -> "VirtualAllocExNuma"
      [] OTHER -> "alloc"

DeallocatorOf(b) ==
    CASE b = "linux" -> "numa_free"
      [] b = "windows" -> "VirtualFree"
      [] OTHER -> "dealloc"

\* The nodes new() allocates on, in the order its loop meets them: entries with
\* an empty processor sequence are skipped.
ReplicatedNodes_dropsLast(map, order) ==
    SubSeq(SelectSeq(order, LAMBDA n : map[n] # <<>>), 1, Len(order) - 1)
ReplicatedNodes(map, order) == SelectSeq(order, LAMBDA n : map[n] # <<>>)

\* What new() leaves at the address of its i-th allocation: the value the i-th
\* call of `source` returned (the call number stands for it), written in place.
Replica(b, node, i) ==
    [node |-> node, value |-> i, allocator |-> AllocatorOf(b), constructed |-> TRUE,
     mapped |-> TRUE, teardowns |-> 0, frees |-> 0, freedBy |-> "", torndownFreed |-> FALSE]

\* The heap after new() made its first k allocations on `nodes`.
Construct(b, nodes, k) == [i \in 1..k |-> Replica(b, nodes[i], i)]

\* new() over `nodes`; the failAt-th allocation returns null (0: none does).
\* A failed allocation panics: the replicas written so far are never dropped.
NewOver(b, nodes, failAt) ==
    IF failAt \in 1..Len(nodes)
    THEN /\ phase' = "panicked"
         /\ heap' = Construct(b, nodes, failAt - 1)
         /\ factoryCalls' = failAt - 1
         /\ allocated' = <<>>
    ELSE /\ phase' = "live"
         /\ heap' = Construct(b, nodes, Len(nodes))
         /\ factoryCalls' = Len(nodes)
         /\ allocated' = [i \in 1..Len(nodes) |-> i]

\* NumaReplicator::new on the linux backend.
LinuxNew ==
    /\ backend = "linux"
    /\ \E available \in {-1, 0} :
          IF available < 0
          THEN \* panic!("NUMA is not available on this system")
               /\ phase' = "panicked"
               /\ UNCHANGED <<allocated, heap, factoryCalls, topoVars>>
          ELSE \/ /\ MappingHangs
                  /\ phase' = "hung"
                  /\ MappingStuck
                  /\ UNCHANGED <<allocated, heap, factoryCalls>>
               \/ /\ ~MappingHangs
                  /\ \E order \in Orders(DOMAIN MappingResult) :
                     \E failAt \in 0..Cardinality(DOMAIN MappingResult) :
                        NewOver("linux", ReplicatedNodes(MappingResult, order), failAt)
                  /\ MappingFills

\* NumaReplicator::new on the windows backend.
WindowsNew ==
    /\ backend = "windows"
    /\ \E order \in Orders(DOMAIN MappingResult) :
       \E failAt \in 0..Cardinality(DOMAIN MappingResult) :
          NewOver("windows", ReplicatedNodes(MappingResult, order), failAt)
    /\ MappingFills

\* NumaReplicator::new without the numa feature: one generic allocation.
NoNumaNew ==
    /\ backend = "none"
    /\ \E failAt \in 0..1 : NewOver("none", <<-1>>, failAt)
    /\ UNCHANGED topoVars

New ==
    /\ phase = "unbuilt"
    /\ once # "running"
    /\ LinuxNew \/ WindowsNew \/ NoNumaNew
    /\ UNCHANGED <<backend, lastBind, lastGet, lastGetAll>>

\* `&*self.allocated[index]`: indexing past the Vec panics.
Deref(index, cpu) ==
    IF index < Len(allocated)
    THEN [outcome |-> "returned", cpu |-> cpu, ptr |-> allocated[index + 1]]
    ELSE [outcome |-> "panicked", cpu |-> cpu, ptr |-> 0]

\* mapping().iter().enumerate().find_map(|(i, (n, _))| (*n == node).then_some(i)).unwrap_or(0)
IndexOfNode(order, node) ==
    LET i == FirstIndex(order, {node})
    IN  IF i = -1 THEN 0 ELSE i

\* numa_node_of_cpu(cpu): a node whose mask holds the cpu, or -1.
NodesOfCpu(h, cpu) ==
    IF \E n \in Nodes : cpu \in h.cpumask[n]
    THEN {n \in Nodes : cpu \in h.cpumask[n]}
    ELSE {-1}

\* get() on the linux backend, called on processor `cpu`.
LinuxGet(cpu) ==
    /\ backend = "linux"
    /\ \E node \in NodesOfCpu(host, cpu) :
       \E order \in Orders(DOMAIN MAPPING) :
          lastGet' = Deref(IndexOfNode(order, node), cpu)

\* GetCurrentProcessorNumber(): the number of the processor within its group.
GetCurrentProcessorNumber(p) == p[2]

\* get() on the windows backend, called on processor p = <<group, number>>; each
\* of its two mapping().iter() visits the entries in an order of its own.
WindowsGet(p) ==
    /\ backend = "windows"
    /\ \E order1 \in Orders(DOMAIN MAPPING) :
       \E order2 \in Orders(DOMAIN MAPPING) :
          LET cpu == GetCurrentProcessorNumber(p)
              node == FindNodeOfCpu(MAPPING, order1, cpu)
          IN  lastGet' = Deref(IndexOfNode(order2, node), WinCpuId(p))

\* get() without the numa feature.
NoNumaGet ==
    /\ backend = "none"
    /\ lastGet' = Deref(0, 0)

Get ==
    /\ phase = "live"
    /\ \/ \E cpu \in Cpus : LinuxGet(cpu)
       \/ \E p \in WinProcs : WindowsGet(p)
       \/ NoNumaGet
    /\ phase' = IF lastGet'.outcome = "panicked" THEN "panicked" ELSE phase
    /\ UNCHANGED <<backend, topoVars, lastBind, allocated, heap, factoryCalls, lastGetAll>>

\* get_all(): a reference to every replica, in the order of the Vec.
GetAll ==
    /\ phase = "live"
    /\ lastGetAll' = allocated
    /\ UNCHANGED <<backend, topoVars, lastBind, phase, allocated, heap, factoryCalls, lastGet>>

\* std::ptr::drop_in_place(ptr)
Teardown(cell) ==
    [cell EXCEPT !.constructed = FALSE, !.teardowns = @ + 1,
                 !.torndownFreed = @ \/ ~cell.mapped]

\* numa_free / VirtualFree / dealloc
Free(cell, dealloc) ==
    [cell EXCEPT !.mapped = FALSE, !.frees = @ + 1, !.freedBy = dealloc]

\* One trip of the loop of drop().
DropReplica_noTeardown(cell, b) == Free(cell, DeallocatorOf(b))
DropReplica(cell, b) == Free(Teardown(cell), DeallocatorOf(b))

\* drop(): the loop over self.allocated, one trip per pointer held.
RECURSIVE DropAll(_, _, _)
DropAll(h, ptrs, b) ==
    IF ptrs = <<>> THEN h
    ELSE DropAll([h EXCEPT ![Head(ptrs)] = DropReplica(@, b)], Tail(ptrs), b)

Drop ==
    /\ phase = "live"
    /\ phase' = "dropped"
    /\ heap' = DropAll(heap, allocated, backend)
    /\ allocated' = <<>>
    /\ UNCHANGED <<backend, topoVars, lastBind, factoryCalls, lastGet, lastGetAll>>

NextRepl ==
    \/ New
    \/ Get
    \/ GetAll
    \/ Drop

SpecRepl == InitProcess /\ [][NextRepl]_vars

---------------------------------------------------------------------------
(* Claims about NumaReplicator (checked under SpecRepl).                   *)

\* The Topology Map is known and empty (without the numa feature there is none).
TopologyEmpty == backend = "none" \/ (once = "complete" /\ MAPPING = EmptyMap)

TopologyNonEmpty == backend # "none" /\ once = "complete" /\ MAPPING # EmptyMap

\* C1: on every backend, with an empty Topology Map, new(factory) produces
\* exactly one replica and every later get() returns that replica: get() never
\* fails and never indexes past the replica set.
C1_EmptyMapOneReplica ==
    TopologyEmpty =>
        /\ phase = "live" =>
              /\ allocated = <<1>>
              /\ Len(heap) = 1
              /\ factoryCalls = 1
        /\ lastGet.outcome # "panicked"
        /\ (phase = "live" /\ lastGet.outcome = "returned") => lastGet.ptr = allocated[1]

\* C4: for a non-empty Topology Map, new(factory) invokes factory exactly once
\* per node of the map and stores exactly one replica per such node: the number
\* of factory calls, of replicas and the length of get_all() equal the number of
\* nodes, and get_all() returns the same replicas in construction order on every
\* call until the replicator is dropped.
C4_OneReplicaPerNode ==
    (TopologyNonEmpty /\ phase = "live") =>
        LET n == Cardinality(DOMAIN MAPPING)
        IN  /\ factoryCalls = n
            /\ Len(allocated) = n
            /\ Len(heap) = n
            /\ {heap[allocated[i]].node : i \in 1..Len(allocated)} = DOMAIN MAPPING
            /\ \A i \in 1..Len(allocated) :
                  /\ heap[allocated[i]].constructed
                  /\ heap[allocated[i]].value = i
            /\ lastGetAll # <<>> => lastGetAll = allocated

C4_Witness ==
    /\ TopologyNonEmpty
    /\ phase = "live"
    /\ Cardinality(DOMAIN MAPPING) = 2
    /\ Len(lastGetAll) = 2

\* The processor the latest get() ran on is listed in the Topology Map.
GetOnListedCpu ==
    /\ lastGet.outcome # "none"
    /\ TopologyNonEmpty
    /\ \E n \in DOMAIN MAPPING : lastGet.cpu \in Range(MAPPING[n])

\* C5: for every processor P listed in the Topology Map (windows: also those of
\* groups other than group 0, identified by group * 64 + number), get() called
\* on P returns the replica new() constructed for the node that owns P.
C5_GetReturnsLocalReplica ==
    GetOnListedCpu =>
        /\ lastGet.outcome = "returned"
        /\ lastGet.cpu \in Range(MAPPING[heap[lastGet.ptr].node])

\* The deallocator that takes back what an allocator handed out.
Matching ==
    {<<"numa_alloc_onnode", "numa_free">>, <<"VirtualAllocExNuma", "VirtualFree">>,
     <<"alloc", "dealloc">>}

\* C6: dropping a NumaReplicator tears each constructed replica down exactly
\* once, then releases its allocation exactly once with the deallocator matching
\* its allocator; afterwards no replica is constructed or allocated, and none was
\* torn down or freed twice.
C6_DropReleasesEachOnce ==
    /\ \A p \in DOMAIN heap : heap[p].teardowns <= 1 /\ heap[p].frees <= 1
    /\ phase = "dropped" =>
          \A p \in DOMAIN heap :
             /\ heap[p].teardowns = 1
             /\ heap[p].frees = 1
             /\ ~heap[p].constructed
             /\ ~heap[p].mapped
             /\ ~heap[p].torndownFreed
             /\ <<heap[p].allocator, heap[p].freedBy>> \in Matching

C6_Witness == phase = "dropped" /\ Len(heap) = 2

---------------------------------------------------------------------------
(* Claims about mapping() (checked under SpecTopo).                        *)

\* C7: with any number of threads calling mapping() concurrently, several of
\* them racing on the first call, initialize runs exactly once in the process,
\* every call returns the map that run produced, and the cached map never
\* changes afterwards.
C7_InitializedOnce ==
    /\ initRuns <= 1
    /\ Len(produced) <= 1
    /\ once = "complete" => (initRuns = 1 /\ produced = <<MAPPING>>)
    /\ \A t \in Threads : returned[t] # <<>> => returned[t] = produced

C7_Witness ==
    /\ hostChanges > 0
    /\ \A t \in Threads : returned[t] # <<>>
    /\ Initialize(backend, host) # MAPPING

\* No processor identifier in the sequences of two nodes, no node with an empty
\* sequence.
WellFormed(map) ==
    /\ \A a, b \in DOMAIN map : a # b => Range(map[a]) \cap Range(map[b]) = {}
    /\ \A a \in DOMAIN map : map[a] # <<>>

\* C8: the Topology Map mapping() returns is well formed for every answer the
\* platform queries can give.
C8_MapWellFormed ==
    \A t \in Threads : returned[t] # <<>> => WellFormed(returned[t][1])

\* The host reports no NUMA support: GetNumaHighestNodeNumber returned 0
\* (windows), numa_max_node a negative value (linux).
ReportsNoNuma(b, h) ==
    \/ b = "windows" /\ h.highest_ok = 0
    \/ b = "linux" /\ h.max_node < 0

\* C10: topology discovery never fails: when the platform reports no NUMA
\* support or a topology query returns an error value, initialize terminates and
\* mapping() returns an empty map (or the map without the failed entries); it
\* does not panic, loop or propagate an error.
C10_DiscoveryNeverFails ==
    \A t \in Threads :
       /\ pc[t] = "init" => ENABLED InitializeReturn(t)
       /\ (pc[t] = "init" /\ ReportsNoNuma(backend, host)) =>
             Initialize(backend, host) = EmptyMap
       /\ (pc[t] = "init" /\ backend = "windows") =>
             \A p \in WinProcs :
                host.procnode[p] = -1 =>
                   \A n \in DOMAIN Initialize(backend, host) :
                      WinCpuId(p) \notin Range(Initialize(backend, host)[n])

====
